---- MODULE Spec2Model ----
(***************************************************************************)
(* Genos: a tool-calling subway assistant.                                 *)
(*                                                                         *)
(* The module models src/agent.py (class Agent: the preference store, the  *)
(* tool registry and the chat loop), the part of src/main.py that drives   *)
(* it, and the prediction functions of src/tools/mbta.py.                  *)
(*                                                                         *)
(* Python strings are TLA+ strings; a character is a string of length 1.   *)
(* TLA+ string literals are ASCII only, so the character "#" stands for a  *)
(* non-ASCII code point (the source's Chinese text is written with "#").   *)
(***************************************************************************)
EXTENDS Integers, Sequences, FiniteSets, TLC

-----------------------------------------------------------------------------
(* Bounds of the model                                                     *)

\* top-level calls on the agent (set_preference, add_fact, chat, ...) per run
MaxOps == 3
\* tool-call responses the model gives within one chat
MaxRounds == 2
\* tool calls the model emits in a session
MaxToolCalls == 2
\* upstream prediction records at a stop
MaxPreds == 3

-----------------------------------------------------------------------------
(* Python values and strings                                               *)

PyNone == [t |-> "None", s |-> "", n |-> 0]
PyStr(s) == [t |-> "str", s |-> s, n |-> 0]
PyInt(n) == [t |-> "int", s |-> "", n |-> n]

\* bool(v) of a Python value
Truthy(v) == \/ v.t = "str" /\ v.s # ""
             \/ v.t = "int" /\ v.n # 0

\* str(v), as an f-string formats it
PyFormat(v) == IF v.t = "None" THEN "None"
               ELSE IF v.t = "str" THEN v.s
               ELSE ToString(v.n)

CharAt(s, i) == SubSeq(s, i, i)
StrTail(s) == SubSeq(s, 2, Len(s))

\* sub in s
Contains(s, sub) ==
    \E i \in 1..(Len(s) - Len(sub) + 1) : SubSeq(s, i, i + Len(sub) - 1) = sub

StartsWith(s, p) == Len(s) >= Len(p) /\ SubSeq(s, 1, Len(p)) = p
EndsWith(s, p) == Len(s) >= Len(p) /\ SubSeq(s, Len(s) - Len(p) + 1, Len(s)) = p

\* sep.join(parts)
RECURSIVE Join(_, _)
Join(sep, parts) ==
    IF parts = <<>> THEN ""
    ELSE IF Len(parts) = 1 THEN parts[1]
    ELSE parts[1] \o sep \o Join(sep, Tail(parts))

-----------------------------------------------------------------------------
(* json.dumps / json.loads                                                 *)

\* the \uXXXX escape json writes for the non-ASCII character "#"
UnicodeEscape == "\\u672a"

\* a json encoder that leaves the backslash as it is
JsonEscapeChar_NoBackslash(c, ensure_ascii) ==
    IF c = "\"" THEN "\\\""
    ELSE IF c = "#" /\ ensure_ascii THEN UnicodeEscape
    ELSE c

\* one character of a JSON string literal
JsonEscapeChar(c, ensure_ascii) ==
    IF c = "\"" THEN "\\\""
    ELSE IF c = "\\" THEN "\\\\"
    ELSE IF c = "#" /\ ensure_ascii THEN UnicodeEscape
    ELSE c

RECURSIVE JsonEscape(_, _)
JsonEscape(s, ensure_ascii) ==
    IF s = "" THEN ""
    ELSE JsonEscapeChar(CharAt(s, 1), ensure_ascii)
             \o JsonEscape(StrTail(s), ensure_ascii)

\* the body of a JSON string literal decoded; "!" marks an undecodable body
RECURSIVE JsonUnescape(_)
JsonUnescape(s) ==
    IF s = "" THEN ""
    ELSE IF CharAt(s, 1) = "\""
         THEN "!"
    ELSE IF CharAt(s, 1) = "\\"
         THEN IF StartsWith(s, "\\\"") THEN "\"" \o JsonUnescape(SubSeq(s, 3, Len(s)))
              ELSE IF StartsWith(s, "\\\\") THEN "\\" \o JsonUnescape(SubSeq(s, 3, Len(s)))
              ELSE IF StartsWith(s, UnicodeEscape)
                   THEN "#" \o JsonUnescape(SubSeq(s, Len(UnicodeEscape) + 1, Len(s)))
              ELSE "!"
         ELSE CharAt(s, 1) \o JsonUnescape(StrTail(s))

\* json text of a scalar
JsonEncode(v, ensure_ascii) ==
    IF v.t = "None" THEN "null"
    ELSE IF v.t = "str" THEN "\"" \o JsonEscape(v.s, ensure_ascii) \o "\""
    ELSE ToString(v.n)

DigitValue(c) == CHOOSE d \in 0..9 : ToString(d) = c

\* int(text) of a decimal numeral
RECURSIVE ParseInt(_)
ParseInt(text) ==
    IF Len(text) = 1 THEN DigitValue(text)
    ELSE 10 * ParseInt(SubSeq(text, 1, Len(text) - 1))
             + DigitValue(CharAt(text, Len(text)))

\* the scalar a json text denotes
JsonDecode(text) ==
    IF text = "null" THEN PyNone
    ELSE IF StartsWith(text, "\"")
         THEN PyStr(JsonUnescape(SubSeq(text, 2, Len(text) - 1)))
    ELSE PyInt(ParseInt(text))

-----------------------------------------------------------------------------
(* Transit data client: predictions (src/tools/mbta.py)                    *)

ROUTE_DIRECTIONS ==
    [r \in {"Red", "Orange", "Blue", "Green-B", "Green-C", "Green-D", "Green-E"} |->
        CASE r = "Red" -> <<"Ashmont/Braintree", "Alewife">>
          [] r = "Orange" -> <<"Forest Hills", "Oak Grove">>
          [] r = "Blue" -> <<"Bowdoin", "Wonderland">>
          [] r = "Green-B" -> <<"Park Street", "Boston College">>
          [] r = "Green-C" -> <<"Park Street", "Cleveland Circle">>
          [] r = "Green-D" -> <<"Union Square", "Riverside">>
          [] r = "Green-E" -> <<"Medford/Tufts", "Heath Street">>]

\* ROUTE_DIRECTIONS.get(route_name, {}).get(direction_id, f"..{direction_id}")
\* (the tuple of a route holds the names of direction 0 and direction 1)
DirectionName(route_name, direction_id) ==
    IF route_name \in DOMAIN ROUTE_DIRECTIONS /\ direction_id \in {0, 1}
    THEN ROUTE_DIRECTIONS[route_name][direction_id + 1]
    ELSE "##" \o ToString(direction_id)

UpperCase == "ABCDEFGHIJKLMNOPQRSTUVWXYZ"
LowerCase == "abcdefghijklmnopqrstuvwxyz"

LowerChar(c) ==
    IF \E i \in 1..Len(UpperCase) : CharAt(UpperCase, i) = c
    THEN CharAt(LowerCase, CHOOSE i \in 1..Len(UpperCase) : CharAt(UpperCase, i) = c)
    ELSE c

\* str.lower()
RECURSIVE Lower(_)
Lower(s) == IF s = "" THEN "" ELSE LowerChar(CharAt(s, 1)) \o Lower(StrTail(s))

\* the time stamp of the instant t (seconds) as upstream writes it, and
\* datetime.fromisoformat of it
IsoTime(t) == "T" \o ToString(t)
FromIsoFormat(text) == ParseInt(StrTail(text))

\* arrival_time.strftime("%H:%M:%S")
StrfTime(t) == ToString(t \div 60) \o ":" \o ToString(t % 60)

\* round(seconds / 60): Python rounds a half to the even neighbour
RoundMinutes(seconds) ==
    LET q == seconds \div 60
        r == seconds % 60
    IN IF 2 * r < 60 THEN q
       ELSE IF 2 * r > 60 THEN q + 1
       ELSE IF q % 2 = 0 THEN q ELSE q + 1

\* an or that takes its second operand when it can
PyOr_PrefersSecond(a, b) == IF Truthy(b) THEN b ELSE a

\* a or b
PyOr(a, b) == IF Truthy(a) THEN a ELSE b

\* GET /predictions?filter[stop]=..&filter[route]=..: what upstream answers
\* from the predictions it holds
PredictionsResponse(held, stop_id, route_id) ==
    SelectSeq(held, LAMBDA p : /\ p.stop = stop_id
                               /\ Truthy(route_id) => p.route = route_id)

\* a loop body that keeps the trains that have left
PredictionEntry_KeepsPast(pred, now) ==
    LET arrival_str == PyOr(pred.arrival_time, pred.departure_time)
        arrival_time == FromIsoFormat(arrival_str.s)
        route_name == IF Truthy(pred.route) THEN pred.route.s ELSE "##"
    IN IF ~Truthy(arrival_str) THEN <<>>
       ELSE <<[route |-> route_name,
               direction |-> DirectionName(route_name, pred.direction_id),
               minutes |-> RoundMinutes(arrival_time - now),
               time |-> StrfTime(arrival_time),
               status |-> pred.status]>>

\* the body of the for loop of get_predictions: the entry of one upstream
\* record, or no entry
PredictionEntry(pred, now) ==
    LET arrival_str == PyOr(pred.arrival_time, pred.departure_time)
        arrival_time == FromIsoFormat(arrival_str.s)
        route_name == IF Truthy(pred.route) THEN pred.route.s ELSE "##"
    IN IF ~Truthy(arrival_str) THEN <<>>
       ELSE IF arrival_time < now THEN <<>>
       ELSE <<[route |-> route_name,
               direction |-> DirectionName(route_name, pred.direction_id),
               minutes |-> RoundMinutes(arrival_time - now),
               time |-> StrfTime(arrival_time),
               status |-> pred.status]>>

RECURSIVE PredictionEntries(_, _)
PredictionEntries(data, now) ==
    IF data = <<>> THEN <<>>
    ELSE PredictionEntry(Head(data), now) \o PredictionEntries(Tail(data), now)

\* list.sort(key=minutes): stable
RECURSIVE InsertByMinutes(_, _)
InsertByMinutes(sorted, e) ==
    IF sorted = <<>> THEN <<e>>
    ELSE IF sorted[Len(sorted)].minutes <= e.minutes THEN Append(sorted, e)
    ELSE Append(InsertByMinutes(SubSeq(sorted, 1, Len(sorted) - 1), e),
                sorted[Len(sorted)])

\* a sort that leaves the list in upstream's order
SortByMinutes_Unsorted(list) == list

RECURSIVE SortByMinutes(_)
SortByMinutes(list) ==
    IF list = <<>> THEN <<>>
    ELSE InsertByMinutes(SortByMinutes(SubSeq(list, 1, Len(list) - 1)),
                         list[Len(list)])

PredictionCap == 10

\* a direction filter that compares the filter as it was typed
DirectionFilter_CaseSensitive(predictions, direction) ==
    IF Truthy(direction)
    THEN SelectSeq(predictions, LAMBDA p : Contains(Lower(p.direction), direction.s))
    ELSE predictions

\* if direction: keep the entries whose direction name contains it
DirectionFilter(predictions, direction) ==
    IF Truthy(direction)
    THEN SelectSeq(predictions,
                   LAMBDA p : Contains(Lower(p.direction), Lower(direction.s)))
    ELSE predictions

\* a get_predictions that cuts the list to 10 before the direction filter
get_predictions_CapsFirst(held, status_code, now, stop_id, route_id, direction) ==
    LET predictions_data == PredictionsResponse(held, stop_id, route_id)
        sorted == SortByMinutes(PredictionEntries(predictions_data, now))
        capped == SubSeq(sorted, 1, IF Len(sorted) < PredictionCap
                                    THEN Len(sorted) ELSE PredictionCap)
    IN IF status_code # 200
       THEN [error |-> "API ##: " \o ToString(status_code), stop_id |-> stop_id]
       ELSE IF predictions_data = <<>>
       THEN [stop_id |-> stop_id, predictions |-> <<>>, message |-> "####"]
       ELSE [stop_id |-> stop_id,
             route_filter |-> route_id,
             direction_filter |-> direction,
             predictions |-> DirectionFilter(capped, direction)]

\* get_predictions(stop_id, route_id, direction) at the instant now, when
\* upstream holds the predictions held and answers with status_code
get_predictions(held, status_code, now, stop_id, route_id, direction) ==
    LET predictions_data == PredictionsResponse(held, stop_id, route_id)
        predictions == DirectionFilter(
            SortByMinutes(PredictionEntries(predictions_data, now)), direction)
    IN IF status_code # 200
       THEN [error |-> "API ##: " \o ToString(status_code), stop_id |-> stop_id]
       ELSE IF predictions_data = <<>>
       THEN [stop_id |-> stop_id, predictions |-> <<>>, message |-> "####"]
       ELSE [stop_id |-> stop_id,
             route_filter |-> route_id,
             direction_filter |-> direction,
             predictions |-> SubSeq(predictions, 1,
                                    IF Len(predictions) < PredictionCap
                                    THEN Len(predictions) ELSE PredictionCap)]

\* a get_next_train that reports an upstream error as a lack of data
get_next_train_HidesError(held, status_code, now, stop_id, route_id, direction) ==
    LET result == get_predictions(held, status_code, now, stop_id, route_id,
                                  direction)
    IN IF "error" \in DOMAIN result \/ result.predictions = <<>>
       THEN [stop_id |-> stop_id, route_filter |-> route_id,
             direction_filter |-> direction, has_data |-> FALSE,
             predictions |-> <<>>, message |-> "####"]
       ELSE [stop_id |-> stop_id,
             route |-> result.predictions[1].route,
             direction |-> result.predictions[1].direction,
             minutes |-> result.predictions[1].minutes,
             time |-> result.predictions[1].time,
             has_data |-> TRUE,
             message |-> ""]

\* get_next_train(stop_id, route_id, direction)
get_next_train(held, status_code, now, stop_id, route_id, direction) ==
    LET result == get_predictions(held, status_code, now, stop_id, route_id,
                                  direction)
        next_train == result.predictions[1]
        minutes == next_train.minutes
        time_str == IF minutes < 1 THEN "####"
                    ELSE IF minutes = 1 THEN "1 #####"
                    ELSE ToString(minutes) \o " #####"
    IN IF "error" \in DOMAIN result THEN result
       ELSE IF result.predictions = <<>>
       THEN [stop_id |-> stop_id,
             route_filter |-> route_id,
             direction_filter |-> direction,
             has_data |-> FALSE,
             predictions |-> <<>>,
             message |-> "#### 1) ## 2) ## 3) ##"]
       ELSE [stop_id |-> stop_id,
             route |-> next_train.route,
             direction |-> next_train.direction,
             minutes |-> minutes,
             time |-> next_train.time,
             has_data |-> TRUE,
             message |-> next_train.route \o " ##### " \o time_str \o "### "
                             \o next_train.direction]

\* the loop of get_both_directions over result["predictions"]: the dict
\* directions in insertion order, one item per direction name
RECURSIVE DirectionsLoop(_, _)
DirectionsLoop(predictions, directions) ==
    IF predictions = <<>> THEN directions
    ELSE LET pred == Head(predictions)
             dir_name == pred.direction
         IN IF \A i \in 1..Len(directions) : directions[i].name # dir_name
            THEN DirectionsLoop(Tail(predictions),
                     Append(directions, [name |-> dir_name,
                                         minutes |-> pred.minutes,
                                         time |-> pred.time]))
            ELSE DirectionsLoop(Tail(predictions), directions)

\* the dict with these items
DictOf(items) ==
    [k \in {items[i].name : i \in 1..Len(items)} |->
        LET i == CHOOSE j \in 1..Len(items) : items[j].name = k
        IN [minutes |-> items[i].minutes, time |-> items[i].time]]

\* a grouping that keeps the last entry of a direction instead of the first
get_both_directions_KeepsLast(held, status_code, now, stop_id, route_id) ==
    LET result == get_predictions(held, status_code, now, stop_id, route_id, PyNone)
        preds == result.predictions
        reversed == [i \in 1..Len(preds) |-> preds[Len(preds) + 1 - i]]
    IN IF "error" \in DOMAIN result THEN result
       ELSE [stop_id |-> stop_id, route |-> route_id,
             has_data |-> preds # <<>>,
             directions |-> DictOf(DirectionsLoop(reversed, <<>>)),
             message |-> ""]

\* get_both_directions(stop_id, route_id)
get_both_directions(held, status_code, now, stop_id, route_id) ==
    LET result == get_predictions(held, status_code, now, stop_id, route_id, PyNone)
        items == DirectionsLoop(result.predictions, <<>>)
        line(info) == IF info.minutes < 1
                      THEN "  # " \o info.name \o ": ####"
                      ELSE "  # " \o info.name \o ": " \o ToString(info.minutes)
                               \o " ###"
        RECURSIVE lines(_)
        lines(rest) == IF rest = <<>> THEN ""
                       ELSE "\n" \o line(Head(rest)) \o lines(Tail(rest))
    IN IF "error" \in DOMAIN result THEN result
       ELSE IF result.predictions = <<>>
       THEN [stop_id |-> stop_id,
             route |-> route_id,
             has_data |-> FALSE,
             directions |-> DictOf(<<>>),
             message |-> "## " \o PyFormat(route_id) \o " ####"]
       ELSE [stop_id |-> stop_id,
             route |-> route_id,
             has_data |-> TRUE,
             directions |-> DictOf(items),
             message |-> PyFormat(route_id) \o " #:" \o lines(items)]

-----------------------------------------------------------------------------
(* Transit data client: routes, stops and alerts (src/tools/mbta.py)       *)

\* return {"error": f"API ##: {response.status_code}"}
ErrorRecord(status_code) == [error |-> "API ##: " \o ToString(status_code)]

\* ROUTE_DIRECTIONS.get(route_id, {})
DirectionsOf(route_id) ==
    IF route_id \in DOMAIN ROUTE_DIRECTIONS
    THEN [d \in {0, 1} |-> ROUTE_DIRECTIONS[route_id][d + 1]]
    ELSE [d \in {} |-> ""]

\* GET /routes?filter[type]=..: the routes of the types asked for
RoutesResponse(routes_held, route_type) ==
    SelectSeq(routes_held, LAMBDA r : Contains(route_type, ToString(r.type)))

\* get_routes(route_type)
get_routes(routes_held, status_code, route_type) ==
    LET data == RoutesResponse(routes_held, route_type)
    IN IF status_code # 200 THEN ErrorRecord(status_code)
       ELSE [routes |-> [i \in 1..Len(data) |->
                            [id |-> data[i].id,
                             name |-> data[i].long_name,
                             color |-> data[i].color,
                             directions |-> DirectionsOf(data[i].id)]]]

\* GET /stops?filter[route]=..: the stops (platforms) of a route
StopsOfRoute(stops_data, route_id) ==
    SelectSeq(stops_data, LAMBDA st : st.route = route_id)

\* GET /stops?filter[route_type]=0,1: the stops of subway and light rail
StopsOfRapidTransit(stops_data) ==
    SelectSeq(stops_data, LAMBDA st : st.route_type \in {0, 1})

\* a loop that forgets to remember the names it has seen
RECURSIVE StopsLoop_NoSeen(_, _, _)
StopsLoop_NoSeen(data, seen, stops) ==
    IF data = <<>> THEN stops
    ELSE StopsLoop_NoSeen(Tail(data), seen,
             Append(stops, [id |-> Head(data).id, name |-> Head(data).name]))

\* the for loop of get_stops: one entry per name not seen before
RECURSIVE StopsLoop(_, _, _)
StopsLoop(data, seen, stops) ==
    IF data = <<>> THEN stops
    ELSE LET stop == Head(data)
             name == stop.name
         IN IF name \notin seen
            THEN StopsLoop(Tail(data), seen \cup {name},
                           Append(stops, [id |-> stop.id, name |-> name]))
            ELSE StopsLoop(Tail(data), seen, stops)

\* get_stops(route_id)
get_stops(stops_data, status_code, route_id) ==
    IF status_code # 200 THEN ErrorRecord(status_code)
    ELSE [route |-> route_id,
          directions |-> DirectionsOf(route_id),
          stops |-> StopsLoop(StopsOfRoute(stops_data, route_id), {}, <<>>)]

Whitespace == {" ", "\t", "\n"}

\* str.strip(): leading and trailing whitespace removed
RECURSIVE Strip(_)
Strip(s) ==
    IF s = "" THEN ""
    ELSE IF CharAt(s, 1) \in Whitespace THEN Strip(StrTail(s))
    ELSE IF CharAt(s, Len(s)) \in Whitespace THEN Strip(SubSeq(s, 1, Len(s) - 1))
    ELSE s

\* a match that compares the stop name as upstream writes it
StopMatches_CaseSensitive(query_lower, name) == Contains(name, query_lower)

\* query_lower in name.lower()
StopMatches(query_lower, name) == Contains(Lower(name), query_lower)

\* the for loop of search_stops: one entry per matching name not seen before
RECURSIVE MatchesLoop(_, _, _, _)
MatchesLoop(data, query_lower, seen, matches) ==
    IF data = <<>> THEN matches
    ELSE LET stop == Head(data)
             name == stop.name
         IN IF name \notin seen /\ StopMatches(query_lower, name)
            THEN MatchesLoop(Tail(data), query_lower, seen \cup {name},
                             Append(matches, [id |-> stop.id, name |-> name]))
            ELSE MatchesLoop(Tail(data), query_lower, seen, matches)

\* search_stops(query)
search_stops(stops_data, status_code, query) ==
    LET query_lower == Strip(Lower(query))
        matches == MatchesLoop(StopsOfRapidTransit(stops_data), query_lower,
                               {}, <<>>)
    IN IF status_code # 200 THEN ErrorRecord(status_code)
       ELSE [query |-> query, count |-> Len(matches), results |-> matches]

\* GET /alerts?filter[route]=.. or ?filter[route_type]=0,1: the alerts
\* that inform the route, or a subway or light rail route
AlertsResponse(alerts_held, route_id) ==
    SelectSeq(alerts_held, LAMBDA a :
        \E i \in 1..Len(a.informed_entity) :
            IF Truthy(route_id)
            THEN a.informed_entity[i].route = route_id
            ELSE a.informed_entity[i].route_type \in {0, 1})

\* the body of the for loop of get_alerts: the entry of one alert record
\* (list(set(affected_routes)) has no defined order: it is kept as a set)
AlertEntry(alert) ==
    [header |-> alert.header,
     description |-> alert.description,
     effect |-> alert.effect,
     severity |-> alert.severity,
     affected_routes |-> {alert.informed_entity[i].route.s :
                             i \in {j \in 1..Len(alert.informed_entity) :
                                       alert.informed_entity[j].route # PyNone}},
     updated_at |-> alert.updated_at]

\* alerts.sort(key=severity, reverse=True): stable, the highest first
RECURSIVE InsertBySeverity(_, _)
InsertBySeverity(sorted, e) ==
    IF sorted = <<>> THEN <<e>>
    ELSE IF sorted[Len(sorted)].severity >= e.severity THEN Append(sorted, e)
    ELSE Append(InsertBySeverity(SubSeq(sorted, 1, Len(sorted) - 1), e),
                sorted[Len(sorted)])

\* a sort that leaves the alerts in upstream's order
SortBySeverity_Unsorted(list) == list

RECURSIVE SortBySeverity(_)
SortBySeverity(list) ==
    IF list = <<>> THEN <<>>
    ELSE InsertBySeverity(SortBySeverity(SubSeq(list, 1, Len(list) - 1)),
                          list[Len(list)])

AlertCap == 10
AlertMessageCap == 5

\* list[:n]
Take(list, n) == SubSeq(list, 1, IF Len(list) < n THEN Len(list) ELSE n)

\* a get_alerts that reports alerts only when one is severe
get_alerts_SevereOnly(alerts_held, status_code, route_id) ==
    LET alerts_data == AlertsResponse(alerts_held, route_id)
        alerts == SortBySeverity([i \in 1..Len(alerts_data) |->
                                     AlertEntry(alerts_data[i])])
    IN IF status_code # 200 THEN ErrorRecord(status_code)
       ELSE IF \A i \in 1..Len(alerts) : alerts[i].severity < 5
       THEN [route_filter |-> route_id, has_alerts |-> FALSE, alerts |-> <<>>,
             message |-> "# ############"]
       ELSE [route_filter |-> route_id, has_alerts |-> TRUE,
             alert_count |-> Len(alerts), alerts |-> Take(alerts, AlertCap),
             message |-> "## ## " \o ToString(Len(alerts)) \o " #####:"]

\* get_alerts(route_id)
get_alerts(alerts_held, status_code, route_id) ==
    LET alerts_data == AlertsResponse(alerts_held, route_id)
        alerts == SortBySeverity([i \in 1..Len(alerts_data) |->
                                     AlertEntry(alerts_data[i])])
        top == Take(alerts, AlertMessageCap)
        lines == <<"## ## " \o ToString(Len(alerts)) \o " #####:">>
                 \o [i \in 1..Len(top) |->
                        "  " \o ToString(i) \o ". [" \o top[i].effect \o "] "
                            \o top[i].header]
    IN IF status_code # 200 THEN ErrorRecord(status_code)
       ELSE IF alerts = <<>>
       THEN [route_filter |-> route_id,
             has_alerts |-> FALSE,
             alerts |-> <<>>,
             message |-> "# " \o (IF Truthy(route_id) THEN "###" ELSE "####")
                             \o "############"]
       ELSE [route_filter |-> route_id,
             has_alerts |-> TRUE,
             alert_count |-> Len(alerts),
             alerts |-> Take(alerts, AlertCap),
             message |-> Join("\n", lines)]

-----------------------------------------------------------------------------
(* State                                                                   *)

VARIABLES
    user_id,        \* Agent.user_id
    user_memory,    \* Agent.user_memory: the UserMemory document
    disk,           \* the memory directory: user id -> text of memory/<id>.json
    writes,         \* number of times a memory file was written
    system_prompt,  \* Agent.system_prompt
    messages,       \* Agent.messages: the transcript
    tools,          \* Agent.tools: name -> function
    tool_schemas,   \* Agent.tool_schemas
    clock,          \* the wall clock, datetime.now()
    pc,             \* position of chat: "idle", "query" or "dispatch"
    assistant_message, \* chat's local: the model's response being processed
    call_idx,       \* index of the tool call the for loop of chat is at
    last_call,      \* the last call of _call_tool and what it gave
    chat_log,       \* what the running (or last) chat did
    emitted,        \* tool calls the model has emitted so far
    ops,            \* top-level calls made so far
    lastOp,         \* the last step taken and its result
    peer_memory,    \* user_memory of a second session of the same user, if any
    held,           \* the predictions upstream holds, in the order it lists them
    stops_held,     \* the stops (platforms) upstream holds, in its order
    alerts_held,    \* the alerts upstream holds, in its order
    transit_call,   \* the last call of the transit data client
    transit_result  \* what that call returned

transitVars == <<held, stops_held, alerts_held, transit_call, transit_result>>

agentVars == <<user_id, user_memory, disk, writes, system_prompt, messages,
               tools, tool_schemas, clock, pc, assistant_message, call_idx,
               last_call, chat_log, emitted, ops, lastOp, peer_memory>>

\* what the operations of this session's agent do not touch: the transit data
\* client and the other session's copy of the document
outsideVars == <<transitVars, peer_memory>>

-----------------------------------------------------------------------------
(* Preference store                                                        *)

PreferenceKeys == {"language", "home_station", "home_station_name",
                   "work_station", "work_station_name", "preferred_line",
                   "preferred_direction"}

\* datetime.isoformat()
IsoFormat(t) == "T" \o ToString(t)

\* a default document with a preference of its own
DefaultMemory_WithNickname(uid, now) ==
    [user_id |-> PyStr(uid),
     created_at |-> PyStr(IsoFormat(now)),
     preferences |-> [k \in PreferenceKeys \cup {"nickname"} |-> PyNone],
     facts |-> <<>>,
     conversation_count |-> PyInt(0),
     last_conversation |-> PyNone]

\* the document _load_memory creates for a user without a file
DefaultMemory(uid, now) ==
    [user_id |-> PyStr(uid),
     created_at |-> PyStr(IsoFormat(now)),
     preferences |-> [k \in PreferenceKeys |-> PyNone],
     facts |-> <<>>,
     conversation_count |-> PyInt(0),
     last_conversation |-> PyNone]

\* json.dump(doc, f, ensure_ascii=False, indent=2): the text of every scalar,
\* in the document's structure
JsonDumpDoc(doc) ==
    [user_id |-> JsonEncode(doc.user_id, FALSE),
     created_at |-> JsonEncode(doc.created_at, FALSE),
     preferences |-> [k \in DOMAIN doc.preferences |->
                         JsonEncode(doc.preferences[k], FALSE)],
     facts |-> [i \in 1..Len(doc.facts) |-> JsonEncode(doc.facts[i], FALSE)],
     conversation_count |-> JsonEncode(doc.conversation_count, FALSE),
     last_conversation |-> JsonEncode(doc.last_conversation, FALSE)]

\* json.load(f)
JsonLoadDoc(text) ==
    [user_id |-> JsonDecode(text.user_id),
     created_at |-> JsonDecode(text.created_at),
     preferences |-> [k \in DOMAIN text.preferences |->
                         JsonDecode(text.preferences[k])],
     facts |-> [i \in 1..Len(text.facts) |-> JsonDecode(text.facts[i])],
     conversation_count |-> JsonDecode(text.conversation_count),
     last_conversation |-> JsonDecode(text.last_conversation)]

\* Agent._load_memory
_load_memory(uid, files, now) ==
    IF uid \in DOMAIN files THEN JsonLoadDoc(files[uid])
    ELSE DefaultMemory(uid, now)

\* a save that writes to the file of the default user
_save_memory_DefaultPath(uid, doc, files) ==
    [u \in DOMAIN files \cup {"default"} |->
        IF u = "default" THEN JsonDumpDoc(doc) ELSE files[u]]

\* a save that keeps the preferences the file has where the document has none
_save_memory_Merge(uid, doc, files) ==
    [u \in DOMAIN files \cup {uid} |->
        IF u # uid THEN files[u]
        ELSE IF uid \notin DOMAIN files THEN JsonDumpDoc(doc)
        ELSE [JsonDumpDoc(doc) EXCEPT
                 !.preferences = [k \in DOMAIN @ |->
                     IF @[k] = "null" /\ k \in DOMAIN files[uid].preferences
                     THEN files[uid].preferences[k] ELSE @[k]]]]

\* Agent._save_memory: the directory after the file of uid is overwritten
_save_memory(uid, doc, files) ==
    [u \in DOMAIN files \cup {uid} |->
        IF u = uid THEN JsonDumpDoc(doc) ELSE files[u]]

-----------------------------------------------------------------------------
(* System prompt                                                           *)

base_prompt == "You are Genos, a helpful Boston subway assistant."

\* Agent._build_system_prompt
_build_system_prompt(doc) ==
    LET prefs == doc.preferences
        facts == doc.facts
        user_info_parts ==
            (IF Truthy(prefs["language"])
             THEN <<"- Preferred language: " \o PyFormat(prefs["language"])>>
             ELSE <<>>)
            \o (IF Truthy(prefs["home_station_name"])
                THEN <<"- Home station: " \o PyFormat(prefs["home_station_name"])
                       \o " (ID: " \o PyFormat(prefs["home_station"]) \o ")">>
                ELSE <<>>)
            \o (IF Truthy(prefs["work_station_name"])
                THEN <<"- Work station: " \o PyFormat(prefs["work_station_name"])
                       \o " (ID: " \o PyFormat(prefs["work_station"]) \o ")">>
                ELSE <<>>)
            \o (IF Truthy(prefs["preferred_line"])
                THEN <<"- Preferred line: " \o PyFormat(prefs["preferred_line"])>>
                ELSE <<>>)
            \o (IF facts # <<>>
                THEN <<"- Known facts: "
                       \o Join("; ", [i \in 1..Len(facts) |-> PyFormat(facts[i])])>>
                ELSE <<>>)
    IN IF user_info_parts # <<>>
       THEN base_prompt \o "\n\n## User Information (from memory)\n"
                \o Join("\n", user_info_parts)
       ELSE base_prompt

-----------------------------------------------------------------------------
(* Tool registry                                                           *)

\* the names of MBTA_TOOLS, in the order of the list
MBTA_TOOLS == <<"get_alerts", "search_stops", "get_next_train",
                "get_predictions", "get_both_directions", "get_routes",
                "get_stops">>

Range(f) == {f[x] : x \in DOMAIN f}

Schema(name) == [type |-> "function", name |-> name]

\* Agent.register_tool: the registry after registering (name, func, schema)
register_tool(reg, name, func, schema) ==
    [tools |-> [n \in DOMAIN reg.tools \cup {name} |->
                   IF n = name THEN func ELSE reg.tools[n]],
     tool_schemas |-> Append(reg.tool_schemas, schema)]

\* create_agent: every schema of MBTA_TOOLS registered in turn on an empty registry
RECURSIVE RegisterAll(_, _)
RegisterAll(reg, names) ==
    IF names = <<>> THEN reg
    ELSE RegisterAll(register_tool(reg, Head(names), Head(names),
                                   Schema(Head(names))),
                     Tail(names))

EmptyRegistry == [tools |-> [n \in {} |-> ""], tool_schemas |-> <<>>]

\* json.loads of the text of a dict with one key and a string value
JsonLoads(text) ==
    LET seps == {i \in 3..(Len(text) - 3) : SubSeq(text, i, i + 3) = "\": \""}
        first == CHOOSE i \in seps : \A j \in seps : i <= j
    IN IF StartsWith(text, "{\"") /\ EndsWith(text, "\"}") /\ seps # {}
       THEN [ok |-> TRUE,
             key |-> JsonUnescape(SubSeq(text, 3, first - 1)),
             value |-> JsonUnescape(SubSeq(text, first + 4, Len(text) - 2))]
       ELSE [ok |-> FALSE, key |-> "", value |-> ""]

\* json.dumps of a dict with one key and a string value
JsonDumps(key, value, ensure_ascii) ==
    "{\"" \o JsonEscape(key, ensure_ascii) \o "\": \""
        \o JsonEscape(value, ensure_ascii) \o "\"}"

\* What a tool function does when it is called: it returns a dict or raises.
ToolOutcomes ==
    {[raises |-> FALSE, key |-> "message", value |-> "# Red: 3 min"],
     [raises |-> TRUE, key |-> "", value |-> "got an unexpected keyword argument"]}

\* a _call_tool whose unknown-tool error does not name the tool
_call_tool_Unnamed(registry, name, arguments, outcome) ==
    IF name \notin DOMAIN registry
    THEN [result |-> JsonDumps("error", "####", TRUE), invoked |-> FALSE]
    ELSE IF outcome.raises
         THEN [result |-> JsonDumps("error", outcome.value, TRUE),
               invoked |-> TRUE]
         ELSE [result |-> JsonDumps(outcome.key, outcome.value, FALSE),
               invoked |-> TRUE]

\* Agent._call_tool(name, arguments); outcome is what the tool function does
\* if it is called. The result string and whether the function was invoked.
_call_tool(registry, name, arguments, outcome) ==
    IF name \notin DOMAIN registry
    THEN [result |-> JsonDumps("error", "####: " \o name, TRUE),
          invoked |-> FALSE]
    ELSE IF outcome.raises
         THEN [result |-> JsonDumps("error", outcome.value, TRUE),
               invoked |-> TRUE]
         ELSE [result |-> JsonDumps(outcome.key, outcome.value, FALSE),
               invoked |-> TRUE]

-----------------------------------------------------------------------------
(* The language model's tool calls                                         *)

\* function names the model may ask for: a registered one and an unknown one
CallNames == {"get_alerts", "foo"}

\* arguments strings the model may send: a JSON object and a truncated one
CallArguments == {"{\"route_id\": \"Red\"}", "{\"route_id\": \"Re"}

\* json.loads(arguments): whether the text decodes (a JSON value is closed)
JsonDecodable(text) ==
    \/ StartsWith(text, "{") /\ EndsWith(text, "}")
    \/ StartsWith(text, "[") /\ EndsWith(text, "]")

ToolCall(id, name, arguments) == [id |-> id, function |-> [name |-> name, arguments |-> arguments]]

\* the responses with tool calls the model may give when n calls were emitted before
ToolCallLists(n) ==
    LET one(i) == {ToolCall("call_" \o ToString(n + i), nm, a) :
                       nm \in CallNames, a \in CallArguments}
    IN {<<c>> : c \in one(1)}
       \cup (IF n + 2 <= MaxToolCalls
             THEN {<<c, d>> : c \in one(1), d \in one(2)}
             ELSE {})

-----------------------------------------------------------------------------
(* Messages                                                                *)

Message(role, content) ==
    [role |-> role, content |-> content, tool_calls |-> <<>>, tool_call_id |-> ""]

AssistantToolCalls(calls) ==
    [role |-> "assistant", content |-> "", tool_calls |-> calls, tool_call_id |-> ""]

\* a tool message that carries the id of no call
ToolMessage_NoId(id, content) ==
    [role |-> "tool", content |-> content, tool_calls |-> <<>>, tool_call_id |-> ""]

\* the tool message chat appends for the call with this id
ToolMessage(id, content) ==
    [role |-> "tool", content |-> content, tool_calls |-> <<>>, tool_call_id |-> id]

\* a chat that does not keep the model's reply
SaveReply_Dropped(transcript, content) == transcript

\* chat saves the model's final reply in the transcript
SaveReply(transcript, content) ==
    Append(transcript, Message("assistant", content))

-----------------------------------------------------------------------------
(* Inputs                                                                  *)

UserIds == {"alice"}

\* keys given to set_preference: a known key and an unknown one
KeyInputs == {"language", "nickname"}

\* values given to set_preference
ValueInputs == {PyStr("zh"), PyStr("a\"#\\")}

\* facts given to add_fact
FactInputs == {PyStr("lives in #"), PyStr("likes \"Red\"")}

\* tools registered after create_agent: (name, function)
RegisterInputs == {<<"get_alerts", "get_alerts_v2">>, <<"echo", "echo">>}

NoCall == [name |-> "", registered |-> FALSE, result |-> "", invoked |-> FALSE]
NoChat == [start_len |-> 0, queries |-> 0, rounds |-> 0, requested |-> 0,
           dispatches |-> 0]
Op(op, arg, result) == [op |-> op, arg |-> arg, result |-> result]

\* no second session of the user is running
NoPeer == [none |-> TRUE]

-----------------------------------------------------------------------------
(* Construction                                                            *)

\* create_agent(uid): Agent.__init__ followed by the registration of MBTA_TOOLS
create_agent(uid, files, now) ==
    LET memory == _load_memory(uid, files, now)
        prompt == _build_system_prompt(memory)
        registry == RegisterAll(EmptyRegistry, MBTA_TOOLS)
    IN [user_id |-> uid,
        user_memory |-> memory,
        system_prompt |-> prompt,
        messages |-> <<Message("system", prompt)>>,
        tools |-> registry.tools,
        tool_schemas |-> registry.tool_schemas]

InitAgent ==
    /\ clock = 1
    /\ disk = [u \in {} |-> ""]
    /\ writes = 0
    /\ \E uid \in UserIds :
          LET a == create_agent(uid, disk, clock)
          IN /\ user_id = a.user_id
             /\ user_memory = a.user_memory
             /\ system_prompt = a.system_prompt
             /\ messages = a.messages
             /\ tools = a.tools
             /\ tool_schemas = a.tool_schemas
    /\ pc = "idle"
    /\ assistant_message = AssistantToolCalls(<<>>)
    /\ call_idx = 0
    /\ last_call = NoCall
    /\ chat_log = NoChat
    /\ emitted = 0
    /\ ops = 0
    /\ lastOp = Op("create_agent", "", "")
    /\ peer_memory = NoPeer

\* a later run of the program: create_agent(uid) on the memory directory as it is
NewSession(uid) ==
    /\ UNCHANGED outsideVars
    /\ pc = "idle"
    /\ ops < MaxOps
    /\ clock' = clock + 1
    /\ LET a == create_agent(uid, disk, clock')
       IN /\ user_id' = a.user_id
          /\ user_memory' = a.user_memory
          /\ system_prompt' = a.system_prompt
          /\ messages' = a.messages
          /\ tools' = a.tools
          /\ tool_schemas' = a.tool_schemas
    /\ assistant_message' = AssistantToolCalls(<<>>)
    /\ call_idx' = 0
    /\ last_call' = NoCall
    /\ chat_log' = NoChat
    /\ ops' = ops + 1
    /\ lastOp' = Op("create_agent", uid, "")
    /\ UNCHANGED <<disk, writes, pc, emitted>>

-----------------------------------------------------------------------------
(* Preference store operations                                             *)

chatLocals == <<pc, assistant_message, call_idx, last_call, chat_log, emitted>>

\* d[k] = v on a Python dict
DictSet(d, k, v) == [x \in DOMAIN d \cup {k} |-> IF x = k THEN v ELSE d[x]]

\* a check that takes every key
KnownPreference_Any(doc, key) == TRUE

\* key in self.user_memory["preferences"]
KnownPreference(doc, key) == key \in DOMAIN doc.preferences

\* a check that finds no fact
KnownFact_Never(doc, fact) == FALSE

\* fact in self.user_memory["facts"]
KnownFact(doc, fact) == fact \in Range(doc.facts)

\* Agent.set_preference(key, value)
set_preference(key, value) ==
    /\ UNCHANGED outsideVars
    /\ pc = "idle"
    /\ ops < MaxOps
    /\ IF KnownPreference(user_memory, key)
       THEN /\ user_memory' = [user_memory EXCEPT
                                  !.preferences = DictSet(@, key, value)]
            /\ disk' = _save_memory(user_id, user_memory', disk)
            /\ writes' = writes + 1
            /\ lastOp' = Op("set_preference", key, "True")
       ELSE /\ UNCHANGED <<user_memory, disk, writes>>
            /\ lastOp' = Op("set_preference", key, "False")
    /\ ops' = ops + 1
    /\ UNCHANGED <<user_id, system_prompt, messages, tools, tool_schemas, clock>>
    /\ UNCHANGED chatLocals

\* Agent.add_fact(fact)
add_fact(fact) ==
    /\ UNCHANGED outsideVars
    /\ pc = "idle"
    /\ ops < MaxOps
    /\ IF ~KnownFact(user_memory, fact)
       THEN /\ user_memory' = [user_memory EXCEPT !.facts = Append(@, fact)]
            /\ disk' = _save_memory(user_id, user_memory', disk)
            /\ writes' = writes + 1
            /\ lastOp' = Op("add_fact", fact.s, "added")
       ELSE /\ UNCHANGED <<user_memory, disk, writes>>
            /\ lastOp' = Op("add_fact", fact.s, "present")
    /\ ops' = ops + 1
    /\ UNCHANGED <<user_id, system_prompt, messages, tools, tool_schemas, clock>>
    /\ UNCHANGED chatLocals

\* a clear that keeps the transcript's first two messages
ClearedTranscript_KeepsFirstTurn(transcript, prompt) ==
    SubSeq(transcript, 1, IF Len(transcript) < 2 THEN Len(transcript) ELSE 2)

\* self.messages = [{"role": "system", "content": self.system_prompt}]
ClearedTranscript(transcript, prompt) == <<Message("system", prompt)>>

\* Agent.clear_history()
clear_history ==
    /\ UNCHANGED outsideVars
    /\ pc = "idle"
    /\ ops < MaxOps
    /\ messages' = ClearedTranscript(messages, system_prompt)
    /\ ops' = ops + 1
    /\ lastOp' = Op("clear_history", "", "")
    /\ UNCHANGED <<user_id, user_memory, disk, writes, system_prompt, tools,
                   tool_schemas, clock>>
    /\ UNCHANGED chatLocals

\* Agent.register_tool(name, func, schema) called on the session's agent
RegisterTool(name, func) ==
    /\ UNCHANGED outsideVars
    /\ pc = "idle"
    /\ ops < MaxOps
    /\ LET r == register_tool([tools |-> tools, tool_schemas |-> tool_schemas],
                              name, func, Schema(name))
       IN /\ tools' = r.tools
          /\ tool_schemas' = r.tool_schemas
    /\ ops' = ops + 1
    /\ lastOp' = Op("register_tool", name, "")
    /\ UNCHANGED <<user_id, user_memory, disk, writes, system_prompt, messages,
                   clock>>
    /\ UNCHANGED chatLocals

-----------------------------------------------------------------------------
(* Calls of the transit data client                                        *)

\* the instants (seconds) at which the client is called
NowInputs == {60}

Prediction(stop, route, direction_id, arrival_time, departure_time) ==
    [stop |-> stop, route |-> route, direction_id |-> direction_id,
     arrival_time |-> arrival_time, departure_time |-> departure_time,
     status |-> ""]

\* prediction records upstream may hold: trains in 30 s and in 90 s, one that
\* has left, one with a departure time only, one without a time, one that
\* arrives now on another route, one at another stop, and one that has
\* arrived and is to depart
PredictionInputs ==
    {Prediction("place-harsq", PyStr("Red"), 1, PyStr(IsoTime(90)), PyNone),
     Prediction("place-harsq", PyStr("Red"), 0, PyStr(IsoTime(40)), PyStr(IsoTime(100))),
     Prediction("place-harsq", PyStr("Red"), 0, PyStr(IsoTime(150)), PyNone),
     Prediction("place-harsq", PyStr("Red"), 1, PyStr(IsoTime(30)), PyNone),
     Prediction("place-harsq", PyStr("Red"), 0, PyNone, PyStr(IsoTime(120))),
     Prediction("place-harsq", PyStr("Red"), 1, PyNone, PyNone),
     Prediction("place-harsq", PyStr("Orange"), 1, PyStr(IsoTime(60)), PyNone),
     Prediction("place-pktrm", PyStr("Red"), 1, PyStr(IsoTime(90)), PyNone)}

StopInputs == {"place-harsq"}
RouteInputs == {PyNone, PyStr("Red")}
DirectionInputs == {PyNone, PyStr("Alewife"), PyStr("oak")}
StatusInputs == {200, 500}

\* the routes upstream holds: two subway lines, a light rail line and a bus
RouteRecords ==
    <<[id |-> "Red", long_name |-> "Red Line", color |-> "DA291C", type |-> 1],
      [id |-> "Green-B", long_name |-> "Green Line B", color |-> "00843D", type |-> 0],
      [id |-> "Mattapan", long_name |-> "Mattapan Trolley", color |-> "DA291C", type |-> 0],
      [id |-> "1", long_name |-> "Harvard - Nubian", color |-> "FFC72C", type |-> 3]>>

RouteTypeInputs == {"0,1", "3"}

Stop(id, name, route, route_type) ==
    [id |-> id, name |-> name, route |-> route, route_type |-> route_type]

\* stop records upstream may hold: two platforms of Park Street, a stop whose
\* name differs from it in letter case only, a stop of another subway line
\* and a bus stop
StopRecordInputs ==
    {Stop("place-pktrm", "Park Street", "Red", 1),
     Stop("70075", "Park Street", "Red", 1),
     Stop("70076", "PARK STREET", "Red", 1),
     Stop("place-north", "North Station", "Orange", 1),
     Stop("110", "Park Dr", "1", 3)}

StopsRouteInputs == {"Red", "Orange"}

\* queries given to search_stops
QueryInputs == {"park", "ST", " Park", "k S", " "}

Alert(header, effect, severity, informed_entity) ==
    [header |-> header, description |-> "", effect |-> effect,
     severity |-> severity, informed_entity |-> informed_entity,
     updated_at |-> ""]

Entity(route, route_type) == [route |-> route, route_type |-> route_type]

\* alert records upstream may hold: a delay and a suspension of the Red line,
\* a delay of the Orange line and a bus detour
AlertInputs ==
    {Alert("Red Line delays", "DELAY", 3, <<Entity(PyStr("Red"), 1)>>),
     Alert("Red Line suspended", "SUSPENSION", 7,
           <<Entity(PyStr("Red"), 1), Entity(PyNone, 1)>>),
     Alert("Orange Line delays", "DELAY", 3, <<Entity(PyStr("Orange"), 1)>>),
     Alert("Route 1 detour", "DETOUR", 3, <<Entity(PyStr("1"), 3)>>)}

\* bounds of the lists of stops and alerts upstream holds
MaxStops == 3
MaxAlerts == 3

NoTransitCall == [fn |-> "", stop_id |-> "", route_id |-> PyNone,
                  direction |-> PyNone, query |-> "", status_code |-> 0,
                  now |-> 0, requests |-> <<>>]

\* a call of the client: its arguments, upstream's status, the instant, and
\* the requests.get calls it makes
TransitCall(fn, stop_id, route_id, direction, query, status_code, now, requests) ==
    [fn |-> fn, stop_id |-> stop_id, route_id |-> route_id,
     direction |-> direction, query |-> query, status_code |-> status_code,
     now |-> now, requests |-> requests]

InitTransit ==
    /\ held = <<>>
    /\ stops_held = <<>>
    /\ alerts_held = <<>>
    /\ transit_call = NoTransitCall
    /\ transit_result = [none |-> TRUE]

upstreamVars == <<held, stops_held, alerts_held>>

\* The client keeps no state between calls (every function starts from its
\* arguments and one response), so a run is upstream's lists followed by one
\* call: every call is taken on every list.

\* upstream lists one more prediction (the list is built before the client
\* is called, so that a result is always the result on the list as it is)
UpstreamPublishes(pred) ==
    /\ transit_call = NoTransitCall
    /\ Len(held) < MaxPreds
    /\ held' = Append(held, pred)
    /\ UNCHANGED <<stops_held, alerts_held, transit_call, transit_result>>
    /\ UNCHANGED agentVars

\* upstream lists one more stop
UpstreamListsStop(stop) ==
    /\ transit_call = NoTransitCall
    /\ Len(stops_held) < MaxStops
    /\ stops_held' = Append(stops_held, stop)
    /\ UNCHANGED <<held, alerts_held, transit_call, transit_result>>
    /\ UNCHANGED agentVars

\* upstream posts one more alert
UpstreamPostsAlert(alert) ==
    /\ transit_call = NoTransitCall
    /\ Len(alerts_held) < MaxAlerts
    /\ alerts_held' = Append(alerts_held, alert)
    /\ UNCHANGED <<held, stops_held, transit_call, transit_result>>
    /\ UNCHANGED agentVars

\* n copies of a record
Copies(record, n) == [i \in 1..n |-> record]

\* a rush hour: upstream lists as many predictions like this one as
\* get_predictions returns at most
UpstreamPublishesBurst(pred) ==
    /\ transit_call = NoTransitCall
    /\ Len(held) < MaxPreds
    /\ held' = held \o Copies(pred, PredictionCap)
    /\ UNCHANGED <<stops_held, alerts_held, transit_call, transit_result>>
    /\ UNCHANGED agentVars

\* a day of many alerts: upstream posts as many alerts like this one as
\* get_alerts returns at most
UpstreamPostsAlertBurst(alert) ==
    /\ transit_call = NoTransitCall
    /\ Len(alerts_held) < MaxAlerts
    /\ alerts_held' = alerts_held \o Copies(alert, AlertCap)
    /\ UNCHANGED <<held, stops_held, transit_call, transit_result>>
    /\ UNCHANGED agentVars

\* get_predictions is called at the instant now and upstream answers with
\* status_code
CallGetPredictions(stop_id, route_id, direction, status_code, now) ==
    /\ transit_call = NoTransitCall
    /\ transit_call' = TransitCall("get_predictions", stop_id, route_id,
                                   direction, "", status_code, now,
                                   <<"/predictions">>)
    /\ transit_result' = get_predictions(held, status_code, now, stop_id,
                                         route_id, direction)
    /\ UNCHANGED upstreamVars
    /\ UNCHANGED agentVars

\* get_next_train is called at the instant now and upstream answers with
\* status_code
CallGetNextTrain(stop_id, route_id, direction, status_code, now) ==
    /\ transit_call = NoTransitCall
    /\ transit_call' = TransitCall("get_next_train", stop_id, route_id,
                                   direction, "", status_code, now,
                                   <<"/predictions">>)
    /\ transit_result' = get_next_train(held, status_code, now, stop_id,
                                        route_id, direction)
    /\ UNCHANGED upstreamVars
    /\ UNCHANGED agentVars

\* get_both_directions(stop_id, route_id)
CallGetBothDirections(stop_id, route_id, status_code, now) ==
    /\ transit_call = NoTransitCall
    /\ transit_call' = TransitCall("get_both_directions", stop_id, route_id,
                                   PyNone, "", status_code, now,
                                   <<"/predictions">>)
    /\ transit_result' = get_both_directions(held, status_code, now, stop_id,
                                             route_id)
    /\ UNCHANGED upstreamVars
    /\ UNCHANGED agentVars

\* get_routes(route_type)
CallGetRoutes(route_type, status_code) ==
    /\ transit_call = NoTransitCall
    /\ transit_call' = TransitCall("get_routes", "", PyNone, PyNone,
                                   route_type, status_code, 0, <<"/routes">>)
    /\ transit_result' = get_routes(RouteRecords, status_code, route_type)
    /\ UNCHANGED upstreamVars
    /\ UNCHANGED agentVars

\* get_stops(route_id)
CallGetStops(route_id, status_code) ==
    /\ transit_call = NoTransitCall
    /\ transit_call' = TransitCall("get_stops", "", PyStr(route_id), PyNone,
                                   "", status_code, 0, <<"/stops">>)
    /\ transit_result' = get_stops(stops_held, status_code, route_id)
    /\ UNCHANGED upstreamVars
    /\ UNCHANGED agentVars

\* search_stops(query)
CallSearchStops(query, status_code) ==
    /\ transit_call = NoTransitCall
    /\ transit_call' = TransitCall("search_stops", "", PyNone, PyNone, query,
                                   status_code, 0, <<"/stops">>)
    /\ transit_result' = search_stops(stops_held, status_code, query)
    /\ UNCHANGED upstreamVars
    /\ UNCHANGED agentVars

\* get_alerts(route_id)
CallGetAlerts(route_id, status_code) ==
    /\ transit_call = NoTransitCall
    /\ transit_call' = TransitCall("get_alerts", "", route_id, PyNone, "",
                                   status_code, 0, <<"/alerts">>)
    /\ transit_result' = get_alerts(alerts_held, status_code, route_id)
    /\ UNCHANGED upstreamVars
    /\ UNCHANGED agentVars

-----------------------------------------------------------------------------
(* Agent.chat                                                              *)

memoryVars == <<user_id, user_memory, disk, writes, system_prompt>>
registryVars == <<tools, tool_schemas>>

\* chat(user_message) up to its first request to the model
ChatStart(user_message) ==
    /\ UNCHANGED outsideVars
    /\ pc = "idle"
    /\ ops < MaxOps
    /\ clock' = clock + 1
    /\ messages' = Append(messages, Message("user", user_message))
    /\ pc' = "query"
    /\ chat_log' = [start_len |-> Len(messages), queries |-> 1, rounds |-> 0,
                    requested |-> 0, dispatches |-> 0]
    /\ ops' = ops + 1
    /\ lastOp' = Op("chat", user_message, "running")
    /\ UNCHANGED memoryVars
    /\ UNCHANGED registryVars
    /\ UNCHANGED <<assistant_message, call_idx, last_call, emitted>>

\* the request to the model fails: chat raises
ModelRequestFails ==
    /\ UNCHANGED outsideVars
    /\ pc = "query"
    /\ pc' = "idle"
    /\ lastOp' = Op("chat", "APIError", "raised")
    /\ UNCHANGED memoryVars
    /\ UNCHANGED registryVars
    /\ UNCHANGED <<messages, clock, assistant_message, call_idx, last_call,
                   chat_log, emitted, ops>>

\* the model answers with tool calls: the while loop is entered (or continues)
ModelRequestsTools(calls) ==
    /\ UNCHANGED outsideVars
    /\ pc = "query"
    /\ tool_schemas # <<>>
    /\ chat_log.rounds < MaxRounds
    /\ emitted + Len(calls) <= MaxToolCalls
    /\ assistant_message' = AssistantToolCalls(calls)
    /\ messages' = Append(messages, assistant_message')
    /\ call_idx' = 1
    /\ pc' = "dispatch"
    /\ chat_log' = [chat_log EXCEPT !.rounds = @ + 1,
                                    !.requested = @ + Len(calls)]
    /\ emitted' = emitted + Len(calls)
    /\ lastOp' = Op("chat", "tool_calls", "running")
    /\ UNCHANGED memoryVars
    /\ UNCHANGED registryVars
    /\ UNCHANGED <<clock, last_call, ops>>

\* a loop that gives up after its first round of tool calls
AfterToolCalls_Ceiling(rounds) == IF rounds < 1 THEN "query" ELSE "idle"

\* where chat goes after the for loop of a round: to the next request to the
\* model, whatever the number of rounds so far (the while loop has no counter)
AfterToolCalls(rounds) == "query"

\* one iteration of the for loop over assistant_message.tool_calls
DispatchToolCall(outcome) ==
    /\ UNCHANGED outsideVars
    /\ pc = "dispatch"
    /\ LET tool_call == assistant_message.tool_calls[call_idx]
           func_name == tool_call.function.name
       IN IF ~JsonDecodable(tool_call.function.arguments)
          THEN \* json.loads raises: chat raises
               /\ pc' = "idle"
               /\ lastOp' = Op("chat", "JSONDecodeError", "raised")
               /\ UNCHANGED <<messages, call_idx, last_call, chat_log>>
          ELSE LET r == _call_tool(tools, func_name,
                                   tool_call.function.arguments, outcome)
               IN /\ messages' = Append(messages, ToolMessage(tool_call.id, r.result))
                  /\ last_call' = [name |-> func_name,
                                   registered |-> func_name \in DOMAIN tools,
                                   result |-> r.result,
                                   invoked |-> r.invoked]
                  /\ chat_log' = [chat_log EXCEPT
                        !.dispatches = @ + 1,
                        !.queries = IF call_idx = Len(assistant_message.tool_calls)
                                    THEN @ + 1 ELSE @]
                  /\ IF call_idx = Len(assistant_message.tool_calls)
                     THEN /\ pc' = AfterToolCalls(chat_log.rounds)
                          /\ call_idx' = call_idx
                     ELSE pc' = "dispatch" /\ call_idx' = call_idx + 1
                  /\ lastOp' = Op("chat", "_call_tool", "running")
    /\ UNCHANGED memoryVars
    /\ UNCHANGED registryVars
    /\ UNCHANGED <<clock, assistant_message, emitted, ops>>

\* statistics that stamp the conversation without counting it
RecordConversation_NoCount(doc, now) ==
    [doc EXCEPT !.last_conversation = PyStr(IsoFormat(now))]

\* conversation_count += 1; last_conversation = datetime.now().isoformat()
RecordConversation(doc, now) ==
    [doc EXCEPT !.conversation_count = PyInt(@.n + 1),
                !.last_conversation = PyStr(IsoFormat(now))]

\* the model answers without tool calls: the reply is saved and chat returns
ModelReturnsText(content) ==
    /\ UNCHANGED outsideVars
    /\ pc = "query"
    /\ messages' = SaveReply(messages, content)
    /\ user_memory' = RecordConversation(user_memory, clock)
    /\ disk' = _save_memory(user_id, user_memory', disk)
    /\ writes' = writes + 1
    /\ pc' = "idle"
    /\ lastOp' = Op("chat", content, "returned")
    /\ UNCHANGED registryVars
    /\ UNCHANGED <<user_id, system_prompt, clock, assistant_message, call_idx,
                   last_call, chat_log, emitted, ops>>

-----------------------------------------------------------------------------
(* The agent session                                                       *)

Next ==
    \/ \E uid \in UserIds : NewSession(uid)
    \/ \E key \in KeyInputs, value \in ValueInputs : set_preference(key, value)
    \/ \E fact \in FactInputs : add_fact(fact)
    \/ clear_history
    \/ \E reg \in RegisterInputs : RegisterTool(reg[1], reg[2])
    \/ ChatStart("hi")
    \/ ModelRequestFails
    \/ \E calls \in ToolCallLists(emitted) : ModelRequestsTools(calls)
    \/ \E outcome \in ToolOutcomes : DispatchToolCall(outcome)
    \/ ModelReturnsText("answer")

vars == <<agentVars, transitVars>>

Init == InitAgent /\ InitTransit

Spec == Init /\ [][Next]_vars

-----------------------------------------------------------------------------
(* The transit data client on its own                                      *)

\* one call of the client after another, on every list of predictions that
\* upstream may hold
TransitNext ==
    \/ \E pred \in PredictionInputs : UpstreamPublishes(pred)
    \/ \E stop_id \in StopInputs, route_id \in RouteInputs,
          direction \in DirectionInputs, status_code \in StatusInputs,
          now \in NowInputs :
          CallGetNextTrain(stop_id, route_id, direction, status_code, now)
    \/ \E stop_id \in StopInputs, route_id \in RouteInputs,
          direction \in DirectionInputs, status_code \in StatusInputs,
          now \in NowInputs :
          CallGetPredictions(stop_id, route_id, direction, status_code, now)
    \/ \E stop_id \in StopInputs, route_id \in RouteInputs \ {PyNone},
          status_code \in StatusInputs, now \in NowInputs :
          CallGetBothDirections(stop_id, route_id, status_code, now)
    \/ \E route_type \in RouteTypeInputs, status_code \in StatusInputs :
          CallGetRoutes(route_type, status_code)
    \/ \E route_id \in StopsRouteInputs, status_code \in StatusInputs :
          CallGetStops(route_id, status_code)
    \/ \E query \in QueryInputs, status_code \in StatusInputs :
          CallSearchStops(query, status_code)
    \/ \E route_id \in RouteInputs, status_code \in StatusInputs :
          CallGetAlerts(route_id, status_code)

SpecTransit == Init /\ [][TransitNext]_vars

\* get_predictions and get_both_directions when upstream may list more
\* predictions than get_predictions returns
RushNext ==
    \/ \E pred \in PredictionInputs : UpstreamPublishes(pred)
    \/ \E pred \in PredictionInputs : UpstreamPublishesBurst(pred)
    \/ \E stop_id \in StopInputs, route_id \in RouteInputs,
          direction \in DirectionInputs, status_code \in StatusInputs,
          now \in NowInputs :
          CallGetPredictions(stop_id, route_id, direction, status_code, now)
    \/ \E stop_id \in StopInputs, route_id \in RouteInputs \ {PyNone},
          status_code \in StatusInputs, now \in NowInputs :
          CallGetBothDirections(stop_id, route_id, status_code, now)

SpecRush == Init /\ [][RushNext]_vars

\* the stop operations of the client, on every list of stops upstream may hold
StopsNext ==
    \/ \E stop \in StopRecordInputs : UpstreamListsStop(stop)
    \/ \E route_id \in StopsRouteInputs, status_code \in StatusInputs :
          CallGetStops(route_id, status_code)
    \/ \E query \in QueryInputs, status_code \in StatusInputs :
          CallSearchStops(query, status_code)

SpecStops == Init /\ [][StopsNext]_vars

\* get_alerts on every list of alerts upstream may hold
AlertsNext ==
    \/ \E alert \in AlertInputs : UpstreamPostsAlert(alert)
    \/ \E alert \in AlertInputs : UpstreamPostsAlertBurst(alert)
    \/ \E route_id \in RouteInputs, status_code \in StatusInputs :
          CallGetAlerts(route_id, status_code)

SpecAlerts == Init /\ [][AlertsNext]_vars

-----------------------------------------------------------------------------
(* Guest mode                                                              *)

\* the user id select_user returns for the guest choice of the menu, which the
\* menu describes as guest mode, memory not saved
GuestId == "guest"

\* runs of the program in which the user takes the guest choice of the menu
\* every time: main_interactive passes the id to create_agent as it does any
\* other id
GuestNext ==
    \/ NewSession(GuestId)
    \/ \E key \in KeyInputs, value \in ValueInputs : set_preference(key, value)
    \/ \E fact \in FactInputs : add_fact(fact)
    \/ ChatStart("hi")
    \/ ModelRequestFails
    \/ ModelReturnsText("answer")

SpecGuest == Init /\ [][GuestNext]_vars

-----------------------------------------------------------------------------
(* Two sessions of one user                                                *)

\* what a step of the second session leaves alone: this session's agent, apart
\* from the memory directory, and the transit data client
peerFrame == <<user_id, user_memory, system_prompt, messages, tools,
               tool_schemas, pc, assistant_message, call_idx, last_call,
               chat_log, emitted, transitVars>>

\* a second run of the program for the same user: its Agent.__init__ loads
\* the document from the memory directory as it is
PeerLoads ==
    /\ peer_memory = NoPeer
    /\ ops < MaxOps
    /\ clock' = clock + 1
    /\ peer_memory' = _load_memory(user_id, disk, clock')
    /\ ops' = ops + 1
    /\ lastOp' = Op("peer", "create_agent", "loaded")
    /\ UNCHANGED <<disk, writes>>
    /\ UNCHANGED peerFrame

\* Agent.set_preference(key, value) in the second session
PeerSetPreference(key, value) ==
    /\ peer_memory # NoPeer
    /\ ops < MaxOps
    /\ IF KnownPreference(peer_memory, key)
       THEN /\ peer_memory' = [peer_memory EXCEPT
                                  !.preferences = DictSet(@, key, value)]
            /\ disk' = _save_memory(user_id, peer_memory', disk)
            /\ writes' = writes + 1
            /\ lastOp' = Op("peer", "set_preference", "saved")
       ELSE /\ UNCHANGED <<peer_memory, disk, writes>>
            /\ lastOp' = Op("peer", "set_preference", "unchanged")
    /\ ops' = ops + 1
    /\ UNCHANGED clock
    /\ UNCHANGED peerFrame

\* Agent.add_fact(fact) in the second session
PeerAddFact(fact) ==
    /\ peer_memory # NoPeer
    /\ ops < MaxOps
    /\ IF ~KnownFact(peer_memory, fact)
       THEN /\ peer_memory' = [peer_memory EXCEPT !.facts = Append(@, fact)]
            /\ disk' = _save_memory(user_id, peer_memory', disk)
            /\ writes' = writes + 1
            /\ lastOp' = Op("peer", "add_fact", "saved")
       ELSE /\ UNCHANGED <<peer_memory, disk, writes>>
            /\ lastOp' = Op("peer", "add_fact", "unchanged")
    /\ ops' = ops + 1
    /\ UNCHANGED clock
    /\ UNCHANGED peerFrame

\* the end of a chat of the second session that the model answered: the
\* statistics are updated and the document saved (the second session's
\* transcript is its own and is not followed)
PeerChatReturns ==
    /\ peer_memory # NoPeer
    /\ ops < MaxOps
    /\ clock' = clock + 1
    /\ peer_memory' = RecordConversation(peer_memory, clock')
    /\ disk' = _save_memory(user_id, peer_memory', disk)
    /\ writes' = writes + 1
    /\ ops' = ops + 1
    /\ lastOp' = Op("peer", "chat", "saved")
    /\ UNCHANGED peerFrame

\* two sessions of one user, their operations interleaved in every order
RaceNext ==
    \/ \E key \in KeyInputs, value \in ValueInputs : set_preference(key, value)
    \/ \E fact \in FactInputs : add_fact(fact)
    \/ PeerLoads
    \/ \E key \in KeyInputs, value \in ValueInputs : PeerSetPreference(key, value)
    \/ \E fact \in FactInputs : PeerAddFact(fact)
    \/ PeerChatReturns

SpecRace == Init /\ [][RaceNext]_vars

-----------------------------------------------------------------------------
(* Claims about the agent session                                          *)

ChatReturned == lastOp.op = "chat" /\ lastOp.result = "returned"
ChatRaised == lastOp.op = "chat" /\ lastOp.result = "raised"

\* the tool call the for loop of chat is about to process
CurrentCall == assistant_message.tool_calls[call_idx]

\* C1: a malformed tool call never makes chat raise: whenever the for loop is
\* at a tool call, whatever the call is, the step that processes it appends a
\* tool message and chat goes on (it does not raise).
C1_MalformedCallNeverRaises ==
    [][pc = "dispatch" =>
          /\ ~ChatRaised'
          /\ Len(messages') = Len(messages) + 1
          /\ messages'[Len(messages')].role = "tool"]_vars

\* C1, the three kinds of malformed call the code does contain: an
\* unregistered name and a tool that raises give a tool message whose content
\* is a JSON object with an error field, and chat goes on.
C1_ContainedKinds ==
    [][(/\ pc = "dispatch"
        /\ JsonDecodable(CurrentCall.function.arguments)) =>
          /\ ~ChatRaised'
          /\ messages' = Append(messages, ToolMessage(CurrentCall.id,
                                                      last_call'.result))
          /\ JsonLoads(last_call'.result).ok
          /\ (\/ ~last_call'.registered
              \/ JsonLoads(last_call'.result).key = "error"
              \/ last_call'.invoked)]_vars

\* C3 as stated: a chat of k tool-call responses of one call each, followed by
\* a final text, made k dispatches, and for k = 2 it lengthened the transcript
\* by 2 * 2 + 1 = 5 messages.
C3_LengthAsStated ==
    (ChatReturned /\ chat_log.requested = chat_log.rounds) =>
        /\ chat_log.dispatches = chat_log.rounds
        /\ chat_log.rounds = 2 => Len(messages) = chat_log.start_len + 5

\* C3 amended: such a chat made k dispatches and lengthened the transcript by
\* 2k + 2 (6 for k = 2): the user message that chat appends first, k times
\* (assistant + tool), and the final assistant message.
C3_DispatchesAndLength ==
    (ChatReturned /\ chat_log.requested = chat_log.rounds) =>
        /\ chat_log.dispatches = chat_log.rounds
        /\ Len(messages) = chat_log.start_len + 1 + 2 * chat_log.rounds + 1
        /\ messages[chat_log.start_len + 1].role = "user"
        /\ messages[Len(messages)].role = "assistant"
        /\ messages[Len(messages)].tool_calls = <<>>

C3_Witness ==
    /\ ChatReturned
    /\ chat_log.rounds = 2
    /\ chat_log.requested = 2
    /\ chat_log.dispatches = 2

\* the index of the assistant tool-call message that tool message j answers:
\* the last assistant message with tool calls before j
Requester(j) ==
    LET before == {i \in 1..(j - 1) : /\ messages[i].role = "assistant"
                                      /\ messages[i].tool_calls # <<>>}
    IN IF before = {} THEN 0
       ELSE CHOOSE i \in before : \A k \in before : k <= i

\* C4: every tool message carries the id of a tool call of the assistant
\* message before it, the tool messages after an assistant tool-call message
\* answer its calls one each in the order of the calls, and while the for loop
\* runs exactly the calls before the current one have been answered.
C4_CorrelationIds ==
    /\ \A j \in 1..Len(messages) :
          messages[j].role = "tool" =>
             LET i == Requester(j)
             IN /\ i > 0
                /\ \A k \in (i + 1)..j : messages[k].role = "tool"
                /\ j - i <= Len(messages[i].tool_calls)
                /\ messages[j].tool_call_id = messages[i].tool_calls[j - i].id
    /\ pc = "dispatch" =>
          /\ messages[Len(messages) - (call_idx - 1)] = assistant_message
          /\ call_idx <= Len(assistant_message.tool_calls)

C4_Witness ==
    /\ Len(messages) >= 5
    /\ Len(messages[3].tool_calls) = 2
    /\ messages[4].role = "tool"
    /\ messages[5].role = "tool"
    /\ messages[5].tool_call_id = messages[3].tool_calls[2].id
    /\ messages[5].tool_call_id # messages[4].tool_call_id

\* C5: the dispatch of a name that is not registered gives a JSON object with
\* an error field that contains the name, invokes no tool function and does
\* not raise (the result is appended as a tool message).
C5_UnknownTool ==
    [][(/\ pc = "dispatch"
        /\ JsonDecodable(CurrentCall.function.arguments)
        /\ CurrentCall.function.name \notin DOMAIN tools) =>
          LET payload == JsonLoads(last_call'.result)
          IN /\ ~ChatRaised'
             /\ messages' = Append(messages, ToolMessage(CurrentCall.id,
                                                         last_call'.result))
             /\ last_call'.name = CurrentCall.function.name
             /\ payload.ok
             /\ payload.key = "error"
             /\ Contains(payload.value, CurrentCall.function.name)
             /\ ~last_call'.invoked]_vars

C5_Witness ==
    /\ last_call.name = "foo"
    /\ ~last_call.registered
    /\ messages[Len(messages)].role = "tool"
    /\ messages[Len(messages)].content = last_call.result

\* C6: set_preference with a key that is not one of the seven known keys
\* returns False, leaves the document unchanged and writes no file.
C6_UnknownKey ==
    [][(/\ ops' = ops + 1
        /\ lastOp'.op = "set_preference"
        /\ lastOp'.arg \notin PreferenceKeys) =>
          /\ lastOp'.result = "False"
          /\ user_memory' = user_memory
          /\ disk' = disk
          /\ writes' = writes]_vars

C6_Witness == lastOp = Op("set_preference", "nickname", "False")

\* C7: right after a set_preference that succeeded, an add_fact that added a
\* fact and a chat that returned, the file of the user holds the in-memory
\* document.
C7_Flushed ==
    (\/ lastOp.op = "set_preference" /\ lastOp.result = "True"
     \/ lastOp.op = "add_fact" /\ lastOp.result = "added"
     \/ ChatReturned) =>
        /\ user_id \in DOMAIN disk
        /\ disk[user_id] = JsonDumpDoc(user_memory)

C7_Witness ==
    /\ ChatReturned
    /\ user_memory.conversation_count.n = 1
    /\ user_memory.facts # <<>>
    /\ Truthy(user_memory.preferences["language"])

NoDuplicates(seq) == \A i, j \in 1..Len(seq) : i # j => seq[i] # seq[j]

\* C8: the facts never hold a string twice; add_fact of a fact that is
\* present leaves the facts as they are, and add_fact of a new one appends it.
C8_AddFactIdempotent ==
    [][/\ NoDuplicates(user_memory'.facts)
       /\ (ops' = ops + 1 /\ lastOp'.op = "add_fact") =>
             IF PyStr(lastOp'.arg) \in Range(user_memory.facts)
             THEN user_memory'.facts = user_memory.facts
             ELSE user_memory'.facts =
                      Append(user_memory.facts, PyStr(lastOp'.arg))]_vars

C8_Witness ==
    /\ lastOp.op = "add_fact"
    /\ lastOp.result = "present"
    /\ Len(user_memory.facts) = 2

\* C9: a new session of the same user, started when the file holds the
\* session's document, loads a document identical to it.
C9_RoundTrip ==
    [][(/\ ops' = ops + 1
        /\ lastOp'.op = "create_agent"
        /\ user_id' = user_id
        /\ user_id \in DOMAIN disk
        /\ disk[user_id] = JsonDumpDoc(user_memory)) =>
          user_memory' = user_memory]_vars

C9_Witness ==
    /\ lastOp.op = "create_agent"
    /\ ops = 3
    /\ user_memory.preferences["language"] = PyStr("a\"#\\")
    /\ user_memory.facts # <<>>

\* C10: whenever chat submits the transcript to the model, the system message
\* holds the prompt built from the preferences and facts as they are now.
C10_PromptIsFresh ==
    pc = "query" => messages[1].content = _build_system_prompt(user_memory)

\* the step by which a chat returns its reply
ChatReturns == pc = "query" /\ lastOp'.op = "chat" /\ lastOp'.result = "returned"

\* C11: conversation_count starts at 0 for a new user; the step by which chat
\* returns appends the reply as an assistant message, adds exactly 1 to
\* conversation_count, stamps last_conversation and saves the document; no
\* other step (tool rounds, clear, set_preference, add_fact, register, a chat
\* that raises, a new session of the user) changes conversation_count.
C11_ConversationCount ==
    /\ user_memory.conversation_count = PyInt(0)
    /\ [][IF ChatReturns
          THEN /\ messages' = Append(messages, Message("assistant", lastOp'.arg))
               /\ user_memory'.conversation_count =
                     PyInt(user_memory.conversation_count.n + 1)
               /\ user_memory'.last_conversation = PyStr(IsoFormat(clock'))
               /\ user_memory' = [user_memory EXCEPT
                     !.conversation_count = user_memory'.conversation_count,
                     !.last_conversation = user_memory'.last_conversation]
               /\ disk'[user_id] = JsonDumpDoc(user_memory')
               /\ writes' = writes + 1
          ELSE user_id' = user_id =>
                  user_memory'.conversation_count = user_memory.conversation_count]_vars

\* a second chat returned after a chat with a tool round, with a fact and a
\* preference set in between
C11_Witness ==
    /\ ChatReturned
    /\ user_memory.conversation_count = PyInt(2)
    /\ ops = 3
    /\ chat_log.dispatches > 0

\* C12: clear_history leaves a transcript of exactly one message, the system
\* message the transcript began with, whatever the transcript held, and
\* changes neither the document nor the memory directory.
C12_ClearCollapses ==
    [][(ops' = ops + 1 /\ lastOp'.op = "clear_history") =>
          /\ Len(messages') = 1
          /\ messages'[1] = messages[1]
          /\ messages'[1].role = "system"
          /\ messages'[1].content = system_prompt
          /\ user_memory' = user_memory
          /\ disk' = disk
          /\ writes' = writes]_vars

\* a clear right after a chat with a tool round that returned
C12_Witness ==
    /\ lastOp.op = "clear_history"
    /\ ops = 2
    /\ user_memory.conversation_count = PyInt(1)
    /\ chat_log.dispatches > 0
    /\ Len(messages) = 1

\* C13: the schema list holds exactly one schema for every registered name.
C13_OneSchemaPerName ==
    \A name \in DOMAIN tools :
        Cardinality({i \in 1..Len(tool_schemas) : tool_schemas[i].name = name}) = 1

-----------------------------------------------------------------------------
(* Claims about the transit data client                                    *)

\* a prediction upstream holds that is at the stop, passes the route filter,
\* has an arrival (or else a departure) time that is not before now, and
\* whose direction name contains the direction filter, letter case aside
FutureMatch(pred, call) ==
    LET when == IF pred.arrival_time.t = "str" /\ pred.arrival_time.s # ""
                THEN pred.arrival_time ELSE pred.departure_time
    IN /\ pred.stop = call.stop_id
       /\ (call.route_id.t = "str" /\ call.route_id.s # "") =>
              pred.route = call.route_id
       /\ when.t = "str" /\ when.s # ""
       /\ FromIsoFormat(when.s) >= call.now
       /\ (call.direction.t = "str" /\ call.direction.s # "") =>
              Contains(Lower(DirectionName(pred.route.s, pred.direction_id)),
                       Lower(call.direction.s))

\* C2: when upstream answers, get_next_train returns has_data, and has_data is
\* false exactly if no prediction upstream holds is a future prediction at
\* the stop that passes the route and direction filters.
C2_HasDataIffPredictions ==
    (transit_call.fn = "get_next_train" /\ transit_call.status_code = 200) =>
        /\ "has_data" \in DOMAIN transit_result
        /\ transit_result.has_data =
              (\E i \in 1..Len(held) : FutureMatch(held[i], transit_call))

\* a call with a direction filter that some, but not all, future predictions pass
C2_Witness ==
    /\ transit_call.fn = "get_next_train"
    /\ transit_call.status_code = 200
    /\ transit_call.direction = PyStr("Alewife")
    /\ transit_result.has_data = TRUE
    /\ \E i \in 1..Len(held) :
          /\ ~FutureMatch(held[i], transit_call)
          /\ FutureMatch(held[i], [transit_call EXCEPT !.direction = PyNone])

\* fields that carry upstream data in the results of the client
ClientDataFields ==
    {"routes", "stops", "directions", "results", "count", "predictions",
     "has_data", "route", "direction", "minutes", "time", "alerts",
     "has_alerts", "alert_count", "message"}

\* C14: a call that upstream answers with a status other than 200 makes one
\* HTTP request and returns a record with an error key and no data field
\* (nothing but the error and, for the prediction operations, the stop id
\* asked for); get_next_train and get_both_directions return that record, not
\* a has_data record.
C14_ErrorShortCircuits ==
    (transit_call.fn # "" /\ transit_call.status_code # 200) =>
        /\ "error" \in DOMAIN transit_result
        /\ DOMAIN transit_result \cap ClientDataFields = {}
        /\ DOMAIN transit_result \subseteq {"error", "stop_id"}
        /\ Contains(transit_result.error, ToString(transit_call.status_code))
        /\ Len(transit_call.requests) = 1

\* get_next_train fails upstream although a train is due
C14_Witness ==
    /\ transit_call.fn = "get_next_train"
    /\ transit_call.status_code = 500
    /\ "error" \in DOMAIN transit_result
    /\ \E i \in 1..Len(held) : FutureMatch(held[i], transit_call)

\* the records upstream answers a stop call with
StopsAnswered ==
    IF transit_call.fn = "get_stops"
    THEN SelectSeq(stops_held, LAMBDA st : st.route = transit_call.route_id.s)
    ELSE SelectSeq(stops_held, LAMBDA st : st.route_type \in {0, 1})

\* the stop list a stop call returned
StopList ==
    IF transit_call.fn = "get_stops" THEN transit_result.stops
    ELSE transit_result.results

StopCallAnswered ==
    /\ transit_call.fn \in {"get_stops", "search_stops"}
    /\ transit_call.status_code = 200

\* C15: in the stop list of get_stops and of search_stops no two entries have
\* the same name, and every entry has the id of the first record with its
\* name in upstream's answer.
C15_StopsDeduplicated ==
    StopCallAnswered =>
        /\ \A i, j \in 1..Len(StopList) :
              i # j => StopList[i].name # StopList[j].name
        /\ \A i \in 1..Len(StopList) :
              LET same == {k \in 1..Len(StopsAnswered) :
                              StopsAnswered[k].name = StopList[i].name}
              IN /\ same # {}
                 /\ StopList[i].id =
                       StopsAnswered[CHOOSE k \in same : \A m \in same : k <= m].id

\* two platforms of one name with different ids, of which the list has one
C15_Witness ==
    /\ StopCallAnswered
    /\ Len(StopList) = 1
    /\ Len(StopsAnswered) >= 2
    /\ StopsAnswered[1].name = StopsAnswered[2].name
    /\ StopsAnswered[1].id = "70075"
    /\ StopList[1].id = "70075"

\* the names of the subway and light rail stops that contain q, letter case aside
NamesContaining(q) ==
    {StopsAnswered[k].name : k \in {m \in 1..Len(StopsAnswered) :
        Contains(Lower(StopsAnswered[m].name), Lower(q))}}

\* q without its leading and trailing whitespace
Trimmed(q) ==
    LET inked == {i \in 1..Len(q) : CharAt(q, i) \notin Whitespace}
    IN IF inked = {} THEN ""
       ELSE SubSeq(q, CHOOSE i \in inked : \A j \in inked : i <= j,
                      CHOOSE i \in inked : \A j \in inked : j <= i)

\* C16 as stated: search_stops returns the stops whose name contains the
\* query as it was given, letter case aside, and count is the length of
\* results.
C16_MatchesQueryAsGiven ==
    (transit_call.fn = "search_stops" /\ transit_call.status_code = 200) =>
        /\ {StopList[i].name : i \in 1..Len(StopList)} =
              NamesContaining(transit_call.query)
        /\ transit_result.count = Len(transit_result.results)

\* C16 amended: search_stops returns the stops whose name contains the query
\* without its leading and trailing whitespace, letter case aside, each name
\* once, and count is the length of results.
C16_MatchesTrimmedQuery ==
    (transit_call.fn = "search_stops" /\ transit_call.status_code = 200) =>
        /\ {StopList[i].name : i \in 1..Len(StopList)} =
              NamesContaining(Trimmed(transit_call.query))
        /\ \A i, j \in 1..Len(StopList) :
              i # j => StopList[i].name # StopList[j].name
        /\ transit_result.count = Len(transit_result.results)

\* a query with a leading blank finds some of the stops, not all
C16_Witness ==
    /\ transit_call.fn = "search_stops"
    /\ transit_call.status_code = 200
    /\ transit_call.query = " Park"
    /\ transit_result.count = 2
    /\ Len(StopsAnswered) = 3

PredictionCallAnswered ==
    /\ transit_call.fn = "get_predictions"
    /\ transit_call.status_code = 200

\* C17: the predictions get_predictions returns are in non-decreasing order
\* of minutes.
C17_SortedByMinutes ==
    PredictionCallAnswered =>
        \A i, j \in 1..Len(transit_result.predictions) :
            i < j => transit_result.predictions[i].minutes
                        <= transit_result.predictions[j].minutes

\* upstream listed the later train first
C17_Witness ==
    /\ PredictionCallAnswered
    /\ Len(transit_result.predictions) = 3
    /\ transit_result.predictions[1].minutes < transit_result.predictions[3].minutes
    /\ held[1].arrival_time # PyNone
    /\ transit_result.predictions[3].time = StrfTime(FromIsoFormat(held[1].arrival_time.s))

\* the time get_predictions is to use for a record: the arrival time, or else
\* the departure time
TimeOf(pred) ==
    IF pred.arrival_time.t = "str" /\ pred.arrival_time.s # ""
    THEN pred.arrival_time ELSE pred.departure_time

\* C18: every entry get_predictions returns is the entry of an upstream
\* record whose time is not before now, it has minutes >= 0, and there are as
\* many entries as records that match the call and are not in the past: no
\* past record has an entry.
C18_NoPastPredictions ==
    PredictionCallAnswered =>
        LET future == {i \in 1..Len(held) : FutureMatch(held[i], transit_call)}
        IN /\ Len(transit_result.predictions) = Cardinality(future)
           /\ \A k \in 1..Len(transit_result.predictions) :
                 /\ transit_result.predictions[k].minutes >= 0
                 /\ \E i \in future :
                       transit_result.predictions[k].time =
                           StrfTime(FromIsoFormat(TimeOf(held[i]).s))

\* upstream holds a train that left 30 seconds ago and one that is due
C18_Witness ==
    /\ PredictionCallAnswered
    /\ Len(transit_result.predictions) = 1
    /\ \E i \in 1..Len(held) :
          /\ held[i].stop = transit_call.stop_id
          /\ held[i].route = PyStr("Red")
          /\ held[i].arrival_time = PyStr(IsoTime(30))

\* the prediction list get_both_directions groups: that of get_predictions
\* for the stop and the route, without a direction filter
ListGrouped ==
    get_predictions(held, transit_call.status_code, transit_call.now,
                    transit_call.stop_id, transit_call.route_id, PyNone).predictions

\* C19: get_both_directions has one key for every direction name in the
\* prediction list and no other; the value of a direction holds the smallest
\* minutes among the list's entries for it and the time of an entry with
\* those minutes; has_data is true exactly if the list is not empty.
C19_SoonestPerDirection ==
    (transit_call.fn = "get_both_directions" /\ transit_call.status_code = 200) =>
        /\ transit_result.has_data = (ListGrouped # <<>>)
        /\ DOMAIN transit_result.directions =
              {ListGrouped[i].direction : i \in 1..Len(ListGrouped)}
        /\ \A d \in DOMAIN transit_result.directions :
              LET of_d == {i \in 1..Len(ListGrouped) : ListGrouped[i].direction = d}
              IN /\ DOMAIN transit_result.directions[d] = {"minutes", "time"}
                 /\ \A i \in of_d :
                       transit_result.directions[d].minutes <= ListGrouped[i].minutes
                 /\ \E i \in of_d :
                       /\ transit_result.directions[d].minutes = ListGrouped[i].minutes
                       /\ transit_result.directions[d].time = ListGrouped[i].time

\* both directions, one of them with a later train that is not reported
C19_Witness ==
    /\ transit_call.fn = "get_both_directions"
    /\ transit_call.status_code = 200
    /\ transit_result.has_data = TRUE
    /\ DOMAIN transit_result.directions = {"Alewife", "Ashmont/Braintree"}
    /\ transit_result.directions["Alewife"].minutes = 0
    /\ transit_result.directions["Ashmont/Braintree"].minutes = 1
    /\ Len(ListGrouped) = 3

\* the alert records upstream answers a get_alerts call with
AlertsAnswered ==
    SelectSeq(alerts_held, LAMBDA a :
        \E i \in 1..Len(a.informed_entity) :
            IF transit_call.route_id = PyNone
            THEN a.informed_entity[i].route_type \in {0, 1}
            ELSE a.informed_entity[i].route = transit_call.route_id)

\* C20: get_alerts returns has_alerts = false, an empty alerts list and the
\* message of normal operation (which lists no alert) exactly if upstream's
\* answer holds no alert record; otherwise it returns has_alerts = true and
\* the alerts.
C20_HasAlertsIffRecords ==
    (transit_call.fn = "get_alerts" /\ transit_call.status_code = 200) =>
        IF AlertsAnswered = <<>>
        THEN /\ transit_result.has_alerts = FALSE
             /\ transit_result.alerts = <<>>
             /\ "alert_count" \notin DOMAIN transit_result
             /\ ~Contains(transit_result.message, "[")
        ELSE /\ transit_result.has_alerts = TRUE
             /\ transit_result.alerts # <<>>
             /\ transit_result.alert_count = Len(AlertsAnswered)
             /\ Contains(transit_result.message, "[")

\* alerts of low severity only are alerts too
C20_Witness ==
    /\ transit_call.fn = "get_alerts"
    /\ transit_call.route_id = PyStr("Red")
    /\ transit_call.status_code = 200
    /\ transit_result.has_alerts = TRUE
    /\ \A i \in 1..Len(transit_result.alerts) : transit_result.alerts[i].severity < 5
    /\ Len(alerts_held) > Len(transit_result.alerts)

\* the smaller of two numbers
Least(a, b) == IF a < b THEN a ELSE b

\* how many elements of a list satisfy P
CountOf(list, P(_)) == Cardinality({i \in 1..Len(list) : P(list[i])})

\* C21: the alerts get_alerts returns are in non-increasing order of severity;
\* they are at most 10, each the entry of an upstream record, and the most
\* severe ones (for every severity s the list holds as many alerts of
\* severity s or more as upstream has, up to 10); the message lists the first
\* 5 of them, or all if they are fewer, and no other.
C21_MostSevereFirst ==
    (/\ transit_call.fn = "get_alerts"
     /\ transit_call.status_code = 200
     /\ AlertsAnswered # <<>>) =>
        LET alerts == transit_result.alerts
            message == transit_result.message
        IN /\ \A i, j \in 1..Len(alerts) :
                 i < j => alerts[i].severity >= alerts[j].severity
           /\ Len(alerts) = Least(AlertCap, Len(AlertsAnswered))
           /\ \A i \in 1..Len(alerts) :
                 \E k \in 1..Len(AlertsAnswered) :
                     /\ AlertsAnswered[k].header = alerts[i].header
                     /\ AlertsAnswered[k].severity = alerts[i].severity
           /\ \A s \in {AlertsAnswered[k].severity : k \in 1..Len(AlertsAnswered)} :
                 CountOf(alerts, LAMBDA a : a.severity >= s) =
                     Least(AlertCap, CountOf(AlertsAnswered, LAMBDA a : a.severity >= s))
           /\ \A i \in 1..Len(alerts) :
                 Contains(message, "\n  " \o ToString(i) \o ". [" \o alerts[i].effect
                                       \o "] " \o alerts[i].header)
                     = (i <= AlertMessageCap)
           /\ ~Contains(message, "\n  " \o ToString(AlertMessageCap + 1) \o ". [")

\* twelve alerts, two of low severity listed first: the ten severe ones are
\* returned and five of them are in the message
C21_Witness ==
    /\ transit_call.fn = "get_alerts"
    /\ transit_call.status_code = 200
    /\ Len(AlertsAnswered) = 12
    /\ AlertsAnswered[1].severity = 3
    /\ AlertsAnswered[2].severity = 3
    /\ AlertsAnswered[12].severity = 7
    /\ Len(transit_result.alerts) = 10
    /\ transit_result.alerts[10].severity = 7

\* the whole minutes get_predictions is to report for a record
MinutesOf(pred, now) == RoundMinutes(FromIsoFormat(TimeOf(pred).s) - now)

\* C22: get_predictions returns at most 10 entries, all of a direction that
\* contains the filter (letter case aside), in the order of their minutes,
\* and they are the first 10 of the matching future predictions: for every
\* number of minutes m the result holds as many entries of at most m minutes
\* as there are matching future predictions of at most m minutes, up to 10.
\* A matching future prediction is left out only if 10 that are no later, in
\* whole minutes, are in the result.
C22_CapAfterFilter ==
    PredictionCallAnswered =>
        LET preds == transit_result.predictions
            matching == SelectSeq(held, LAMBDA p : FutureMatch(p, transit_call))
            due(p) == MinutesOf(p, transit_call.now)
        IN /\ Len(preds) <= PredictionCap
           /\ Len(preds) = Least(PredictionCap, Len(matching))
           /\ \A i \in 1..Len(preds) :
                 transit_call.direction # PyNone =>
                     Contains(Lower(preds[i].direction),
                              Lower(transit_call.direction.s))
           /\ \A i, j \in 1..Len(preds) : i < j => preds[i].minutes <= preds[j].minutes
           /\ \A m \in {due(matching[k]) : k \in 1..Len(matching)} :
                 CountOf(preds, LAMBDA e : e.minutes <= m) =
                     Least(PredictionCap, CountOf(matching, LAMBDA p : due(p) <= m))

\* eleven trains to Alewife and a sooner train of another direction: ten
\* trains to Alewife are returned
C22_Witness ==
    /\ PredictionCallAnswered
    /\ transit_call.direction = PyStr("Alewife")
    /\ Len(held) = 12
    /\ held[1].route = PyStr("Orange")
    /\ Len(SelectSeq(held, LAMBDA p : FutureMatch(p, transit_call))) = 11
    /\ Len(transit_result.predictions) = 10

\* C30: get_both_directions has an entry for every direction of which
\* upstream holds a future prediction at the stop for the route.
C30_EveryDirectionReported ==
    (transit_call.fn = "get_both_directions" /\ transit_call.status_code = 200) =>
        \A i \in 1..Len(held) :
            FutureMatch(held[i], transit_call) =>
                DirectionName(held[i].route.s, held[i].direction_id)
                    \in DOMAIN transit_result.directions

\* C24: the train get_next_train reports is a future prediction that passes
\* the filters, and no future prediction that passes them has a time strictly
\* before its time.
C24_ReportsSoonest ==
    (transit_call.fn = "get_next_train" /\ transit_call.status_code = 200) =>
        (transit_result.has_data =>
            \E i \in 1..Len(held) :
                /\ FutureMatch(held[i], transit_call)
                /\ transit_result.time = StrfTime(FromIsoFormat(TimeOf(held[i]).s))
                /\ \A j \in 1..Len(held) :
                      FutureMatch(held[j], transit_call) =>
                          FromIsoFormat(TimeOf(held[j]).s)
                              >= FromIsoFormat(TimeOf(held[i]).s))

\* a record upstream answers the call with and whose direction passes the
\* direction filter
Selected(pred, call) ==
    /\ pred.stop = call.stop_id
    /\ call.route_id # PyNone => pred.route = call.route_id
    /\ call.direction # PyNone =>
          Contains(Lower(DirectionName(pred.route.s, pred.direction_id)),
                   Lower(call.direction.s))

\* the time field C25 says get_predictions uses: arrival_time when the record
\* has one, departure_time otherwise (None if it has neither)
FieldUsed(pred) ==
    IF pred.arrival_time # PyNone THEN pred.arrival_time ELSE pred.departure_time

\* the instants the records upstream holds speak of
InstantsHeld ==
    {FromIsoFormat(f.s) :
        f \in ({held[i].arrival_time : i \in 1..Len(held)}
               \cup {held[i].departure_time : i \in 1..Len(held)}) \ {PyNone}}

\* C25: the entries get_predictions returns are, one each, those of the
\* records whose arrival_time, or departure_time if they have no
\* arrival_time, is not before now, with minutes and time computed from that
\* field: a record with neither has no entry, a record with a future
\* departure_time only has one, and a record with an arrival_time is judged
\* by it alone.
C25_ArrivalElseDeparture ==
    PredictionCallAnswered =>
        LET preds == transit_result.predictions
            now == transit_call.now
            sel == SelectSeq(held, LAMBDA p : Selected(p, transit_call))
            uses(p, t) == /\ FieldUsed(p) # PyNone
                          /\ FromIsoFormat(FieldUsed(p).s) = t
        IN /\ Len(preds) = CountOf(sel, LAMBDA p :
                              \E t \in InstantsHeld : t >= now /\ uses(p, t))
           /\ \A t \in InstantsHeld :
                 CountOf(preds, LAMBDA e : /\ e.time = StrfTime(t)
                                           /\ e.minutes = RoundMinutes(t - now))
                     = IF t >= now THEN CountOf(sel, LAMBDA p : uses(p, t)) ELSE 0

\* a record with a departure time only, a record without times and a record
\* that has arrived and departs later: the first alone has an entry
C25_Witness ==
    /\ PredictionCallAnswered
    /\ transit_call.direction = PyNone
    /\ Len(held) = 3
    /\ \E i \in 1..3 : held[i].arrival_time = PyNone /\ held[i].departure_time = PyNone
    /\ \E i \in 1..3 : /\ held[i].arrival_time = PyStr(IsoTime(40))
                       /\ held[i].departure_time = PyStr(IsoTime(100))
    /\ \E i \in 1..3 : /\ held[i].arrival_time = PyNone
                       /\ held[i].departure_time = PyStr(IsoTime(120))
    /\ Len(transit_result.predictions) = 1
    /\ transit_result.predictions[1].time = StrfTime(120)
    /\ transit_result.predictions[1].minutes = 1

\* C23: in a session of the guest id no memory file of the guest id exists,
\* so none was written by an operation of a guest session and a session of
\* the guest id starts from the defaults.
C23_GuestSavesNothing ==
    user_id = GuestId => GuestId \notin DOMAIN disk

\* C26: the loop of chat has no ceiling. While chat waits for the model it
\* has made one request more than the responses with tool calls it has had;
\* chat returns only in the step in which the model answers without tool
\* calls, and then the transcript ends with that answer; and a round of tool
\* calls whose arguments decode always leads to the next request to the
\* model, whatever the number of rounds, so chat does not return while every
\* response requests a tool call.
C26_NoCeiling ==
    /\ [](pc = "query" => chat_log.queries = chat_log.rounds + 1)
    /\ [][/\ (lastOp'.result = "returned" /\ lastOp' # lastOp) =>
                /\ pc = "query" /\ pc' = "idle"
                /\ chat_log'.queries = chat_log'.rounds + 1
                /\ messages'[Len(messages')].role = "assistant"
                /\ messages'[Len(messages')].tool_calls = <<>>
          /\ (pc = "dispatch" /\ lastOp'.result # "raised") =>
                /\ pc' \in {"dispatch", "query"}
                /\ call_idx = Len(assistant_message.tool_calls) =>
                      /\ pc' = "query"
                      /\ chat_log'.queries = chat_log.rounds + 1]_vars

\* chat has returned after as many rounds of tool calls as a chat may have
C26_Witness ==
    /\ ChatReturned
    /\ chat_log.rounds > 1
    /\ chat_log.queries = chat_log.rounds + 1

\* C28: in every state of a session the preferences map has exactly the
\* seven known keys, and a session created for a user without a file starts
\* with the seven preferences null, no facts, a conversation count of 0 and
\* no last conversation.
C28_SevenKeys ==
    /\ DOMAIN user_memory.preferences =
          {"language", "home_station", "home_station_name", "work_station",
           "work_station_name", "preferred_line", "preferred_direction"}
    /\ (lastOp.op = "create_agent" /\ user_id \notin DOMAIN disk) =>
          /\ \A k \in DOMAIN user_memory.preferences :
                user_memory.preferences[k] = PyNone
          /\ user_memory.facts = <<>>
          /\ user_memory.conversation_count = PyInt(0)
          /\ user_memory.last_conversation = PyNone

\* a session that loaded a file in which a preference is set and a fact kept
C28_Witness ==
    /\ lastOp.op = "create_agent"
    /\ user_id \in DOMAIN disk
    /\ user_memory.preferences["language"] # PyNone
    /\ user_memory.facts # <<>>

\* C29: whenever chat waits for the model's answer to the transcript, every
\* tool call of every assistant message of the transcript is followed by a
\* tool message that carries its id.
C29_EveryCallAnswered ==
    pc = "query" =>
        \A i \in 1..Len(messages) :
            \A c \in 1..Len(messages[i].tool_calls) :
                \E j \in (i + 1)..Len(messages) :
                    /\ messages[j].role = "tool"
                    /\ messages[j].tool_call_id = messages[i].tool_calls[c].id

\* the second session wrote the file in the step
PeerSaves == lastOp'.op = "peer" /\ lastOp'.result = "saved"

\* C27: a save by the second session makes the file the dump of that
\* session's copy of the document, whole: every preference the step did not
\* set has, in the file, the value of the second session's copy, whatever
\* value the first session had saved for it.
C27_LastSaveWins ==
    [][PeerSaves =>
          /\ disk'[user_id] = JsonDumpDoc(peer_memory')
          /\ \A k \in PreferenceKeys :
                peer_memory'.preferences[k] = peer_memory.preferences[k] =>
                    JsonLoadDoc(disk'[user_id]).preferences[k]
                        = peer_memory.preferences[k]]_vars

\* both sessions loaded the document, the first then set its language, which
\* was saved, and a later save of the second left the file without it
C27_Witness ==
    /\ lastOp.op = "peer" /\ lastOp.result = "saved"
    /\ user_memory.preferences["language"] = PyStr("zh")
    /\ peer_memory.preferences["language"] = PyNone
    /\ writes > 1
    /\ JsonLoadDoc(disk[user_id]).preferences["language"] = PyNone

====
